---- MODULE Spec2Model ----
(***************************************************************************)
(* Model of the batch ID-card generator (src/main.py).                     *)
(*                                                                         *)
(* Strings are sequences of one-character strings, so that strip, split,   *)
(* join, upper and the filename sanitizer are computed character by        *)
(* character as Python computes them.  Pillow is outside the repository:   *)
(* a font is the record [face, size] that load_font resolves, and the      *)
(* drawing context carries the glyph advances by which textbbox measures.  *)
(***************************************************************************)
EXTENDS Integers, Sequences, FiniteSets, TLC

VARIABLES pc, args, ret, draw, fs, i, output, log, handled

vars == <<pc, args, ret, draw, fs, i, output, log, handled>>

(***************************************************************************)
(* Bounds of the model.                                                    *)
(***************************************************************************)
MaxLen == 5
MaxWidth == 7
MaxFitLen == 2
MaxSize == 4
MaxFitWidth == 12
MaxRows == 2

(***************************************************************************)
(* Python's None, and the value standing for a raised exception.           *)
(***************************************************************************)
None == <<"None">>

Raised == [face |-> "raised", size |-> 0]

IsRaised(x) == x = Raised

(***************************************************************************)
(* str helpers.                                                            *)
(***************************************************************************)
Whitespace == {" "}

LowerAlpha ==
    <<"a", "b", "c", "d", "e", "f", "g", "h", "i", "j", "k", "l", "m",
      "n", "o", "p", "q", "r", "s", "t", "u", "v", "w", "x", "y", "z">>

UpperAlpha ==
    <<"A", "B", "C", "D", "E", "F", "G", "H", "I", "J", "K", "L", "M",
      "N", "O", "P", "Q", "R", "S", "T", "U", "V", "W", "X", "Y", "Z">>

Digits == {"0", "1", "2", "3", "4", "5", "6", "7", "8", "9"}

Range(f) == {f[k] : k \in DOMAIN f}

UpperChar(c) ==
    IF c \in Range(LowerAlpha)
    THEN UpperAlpha[CHOOSE k \in DOMAIN LowerAlpha : LowerAlpha[k] = c]
    ELSE c

upper(s) == [k \in 1..Len(s) |-> UpperChar(s[k])]

RECURSIVE lstrip(_)
lstrip(s) ==
    IF s # <<>> /\ Head(s) \in Whitespace THEN lstrip(Tail(s)) ELSE s

RECURSIVE rstrip(_)
rstrip(s) ==
    IF s # <<>> /\ s[Len(s)] \in Whitespace
    THEN rstrip(SubSeq(s, 1, Len(s) - 1))
    ELSE s

strip(s) == rstrip(lstrip(s))

\* str.split() with no separator: maximal runs of non-whitespace characters.
RECURSIVE SplitLoop(_, _, _, _)
SplitLoop(s, k, cur, acc) ==
    IF k > Len(s)
    THEN IF cur = <<>> THEN acc ELSE Append(acc, cur)
    ELSE IF s[k] \in Whitespace
         THEN SplitLoop(s, k + 1, <<>>, IF cur = <<>> THEN acc ELSE Append(acc, cur))
         ELSE SplitLoop(s, k + 1, Append(cur, s[k]), acc)

split(s) == SplitLoop(s, 1, <<>>, <<>>)

\* sep.join(parts)
RECURSIVE join(_, _)
join(sep, parts) ==
    IF parts = <<>> THEN <<>>
    ELSE IF Len(parts) = 1 THEN parts[1]
    ELSE parts[1] \o sep \o join(sep, Tail(parts))

\* s.replace(old, new) for a single character old
replace(s, old, new) == [k \in 1..Len(s) |-> IF s[k] = old THEN new ELSE s[k]]

(***************************************************************************)
(* safe_filename: strip, spaces to underscores, drop every character       *)
(* outside the class [A-Za-z0-9_\\-], "unknown" when nothing is left.      *)
(***************************************************************************)
SafeChars ==
    Range(LowerAlpha) \cup Range(UpperAlpha) \cup Digits \cup {"_", "\\", "-"}

RECURSIVE Keep(_, _)
Keep(s, allowed) ==
    IF s = <<>> THEN <<>>
    ELSE IF Head(s) \in allowed
         THEN <<Head(s)>> \o Keep(Tail(s), allowed)
         ELSE Keep(Tail(s), allowed)

Unknown == <<"u", "n", "k", "n", "o", "w", "n">>

safe_filename(text) ==
    LET t1 == replace(strip(text), " ", "_")
        t2 == Keep(t1, SafeChars)
    IN  IF t2 = <<>> THEN Unknown ELSE t2

(***************************************************************************)
(* Fonts.  fs is the file system as the font loader sees it: whether       *)
(* arial.ttf can be opened, and whether the custom font file is absent, a  *)
(* valid font or a file FreeType cannot read.                              *)
(***************************************************************************)
DefaultSize == 10

Arial == <<"arial.ttf">>

\* ImageFont.truetype(path, size): a font of that face at that size, or OSError
truetype(fsys, path, size) ==
    IF path = Arial
    THEN IF fsys.arial THEN [face |-> "arial", size |-> size] ELSE Raised
    ELSE IF fsys.fontfile = "valid" THEN [face |-> "custom", size |-> size] ELSE Raised

\* ImageFont.load_default(): the built-in face, whose size is not the caller's
load_default == [face |-> "default", size |-> DefaultSize]

load_font(fsys, font_path, size) ==
    IF font_path # None /\ fsys.fontfile # "absent"
    THEN truetype(fsys, font_path, size)
    ELSE LET f == truetype(fsys, Arial, size)
         IN  IF IsRaised(f) THEN load_default ELSE f

(***************************************************************************)
(* Text metrics: the bounding box of the glyphs, advances scaled by the    *)
(* font's size.                                                            *)
(***************************************************************************)
Wide == {"w", "W"}

Advance(d, c) ==
    IF c \in Whitespace THEN d.space
    ELSE IF c \in Wide THEN d.wide
    ELSE d.narrow

RECURSIVE SumAdvance(_, _)
SumAdvance(d, text) ==
    IF text = <<>> THEN 0 ELSE Advance(d, Head(text)) + SumAdvance(d, Tail(text))

text_width(d, text, font) == SumAdvance(d, text) * font.size

text_height(d, text, font) ==
    IF \E k \in 1..Len(text) : text[k] \notin Whitespace THEN font.size ELSE 0

(***************************************************************************)
(* wrap_text                                                               *)
(***************************************************************************)
Space == <<" ">>

\* a mutation of the loop body: the candidate line is not measured, only the word
WrapStepWordOnly(d, font, max_width, st, w) ==
    IF text_width(d, w, font) <= max_width
    THEN [lines |-> st.lines, line |-> Append(st.line, w)]
    ELSE IF st.line # <<>>
         THEN [lines |-> Append(st.lines, join(Space, st.line)), line |-> <<w>>]
         ELSE [lines |-> Append(st.lines, w), line |-> <<>>]

\* a mutation of the loop body: the overflowing word is not carried to the new line
WrapStepDropWord(d, font, max_width, st, w) ==
    IF text_width(d, join(Space, Append(st.line, w)), font) <= max_width
    THEN [lines |-> st.lines, line |-> Append(st.line, w)]
    ELSE IF st.line # <<>>
         THEN [lines |-> Append(st.lines, join(Space, st.line)), line |-> <<>>]
         ELSE [lines |-> Append(st.lines, w), line |-> <<>>]

\* one iteration of "for w in words"
WrapStep(d, font, max_width, st, w) ==
    LET test == join(Space, Append(st.line, w))
    IN  IF text_width(d, test, font) <= max_width
        THEN [lines |-> st.lines, line |-> Append(st.line, w)]
        ELSE IF st.line # <<>>
             THEN [lines |-> Append(st.lines, join(Space, st.line)), line |-> <<w>>]
             ELSE [lines |-> Append(st.lines, w), line |-> <<>>]

RECURSIVE WrapLoop(_, _, _, _, _, _)
WrapLoop(d, font, max_width, words, k, st) ==
    IF k > Len(words) THEN st
    ELSE WrapLoop(d, font, max_width, words, k + 1,
                  WrapStep(d, font, max_width, st, words[k]))

\* a mutation: the "if not words" guard is missing
wrap_text_no_guard(d, text, font, max_width) ==
    LET st == WrapLoop(d, font, max_width, split(text), 1,
                       [lines |-> <<>>, line |-> <<>>])
    IN  IF st.line # <<>> THEN Append(st.lines, join(Space, st.line)) ELSE st.lines

wrap_text(d, text, font, max_width) ==
    LET words == split(text)
    IN  IF words = <<>> THEN << <<>> >>
        ELSE LET st == WrapLoop(d, font, max_width, words, 1,
                                [lines |-> <<>>, line |-> <<>>])
             IN  IF st.line # <<>>
                 THEN Append(st.lines, join(Space, st.line))
                 ELSE st.lines

(***************************************************************************)
(* fit_font_size                                                           *)
(***************************************************************************)
RECURSIVE FitLoop(_, _, _, _, _, _, _)
FitLoop(fsys, d, text, font_path, size, max_width, min_size) ==
    IF size >= min_size
    THEN LET font == load_font(fsys, font_path, size)
         IN  IF IsRaised(font) THEN Raised
             ELSE IF text_width(d, text, font) <= max_width THEN font
             ELSE FitLoop(fsys, d, text, font_path, size - 1, max_width, min_size)
    ELSE load_font(fsys, font_path, min_size)

\* a mutation: the loop stops one size above the floor and the floor is overshot
fit_font_size_below_floor(fsys, d, text, font_path, start_size, max_width, min_size) ==
    LET f == FitLoop(fsys, d, text, font_path, start_size, max_width, min_size)
    IN  IF IsRaised(f) \/ text_width(d, text, f) <= max_width THEN f
        ELSE load_font(fsys, font_path, min_size - 1)

fit_font_size(fsys, d, text, font_path, start_size, max_width, min_size) ==
    FitLoop(fsys, d, text, font_path, start_size, max_width, min_size)

(***************************************************************************)
(* CONFIG                                                                  *)
(***************************************************************************)
PHOTO_FOLDER == <<"photos">>

OUTPUT_FOLDER == <<"output">>

PHOTO_POSITION_Y == 200

PHOTO_SIZE_H == 180

TEXT_START_Y == PHOTO_POSITION_Y + PHOTO_SIZE_H + 16

WRAP_MAX_WIDTH == 260

SECTION_GAP == 10

FONT_NAME_PATH == None

FONT_ID_PATH == None

FONT_ROLE_PATH == None

FONT_SMALL_PATH == None

FONT_NAME_SIZE == 56

FONT_ID_SIZE == 34

FONT_ROLE_SIZE == 52

FONT_SMALL_SIZE == 22

(***************************************************************************)
(* create_id_card.  world is what the call meets outside the program: io   *)
(* tells whether opening the template or saving the output raises, photo   *)
(* whether the photo file is missing, decodable ("ok") or undecodable.     *)
(***************************************************************************)
Min(a, b) == IF a <= b THEN a ELSE b

path_join(folder, name) == folder \o <<"/">> \o name

\* "for ln in lines: draw.text(...); y += text_height(...) + 2"
RECURSIVE DrawLoop(_, _, _, _, _, _)
DrawLoop(d, lines, k, font, y, drawn) ==
    IF k > Len(lines) THEN [drawn |-> drawn, y |-> y]
    ELSE DrawLoop(d, lines, k + 1, font, y + text_height(d, lines[k], font) + 2,
                  Append(drawn, [text |-> lines[k], y |-> y]))

\* a mutation: the slice lines[:cap] is missing
DrawLinesUncapped(d, lines, cap, font, y) == DrawLoop(d, lines, 1, font, y, <<>>)

\* "for ln in lines[:cap]: ..."
DrawLines(d, lines, cap, font, y) ==
    DrawLoop(d, SubSeq(lines, 1, Min(cap, Len(lines))), 1, font, y, <<>>)

\* a mutation: the photo block has no try/except
PhotoStepUncaught(photo_filename, photo) ==
    LET photo_path ==
            IF photo_filename # <<>> THEN path_join(PHOTO_FOLDER, photo_filename) ELSE <<>>
    IN  IF photo_path # <<>> /\ photo # "missing"
        THEN IF photo = "ok"
             THEN [pasted |-> TRUE, raised |-> FALSE, logs |-> <<>>]
             ELSE [pasted |-> FALSE, raised |-> TRUE, logs |-> <<>>]
        ELSE IF photo_filename # <<>>
             THEN [pasted |-> FALSE, raised |-> FALSE,
                   logs |-> <<[kind |-> "warn_photo_not_found", what |-> photo_path]>>]
             ELSE [pasted |-> FALSE, raised |-> FALSE, logs |-> <<>>]

\* the "# Photo" block
PhotoStep(photo_filename, photo) ==
    LET photo_path ==
            IF photo_filename # <<>> THEN path_join(PHOTO_FOLDER, photo_filename) ELSE <<>>
    IN  IF photo_path # <<>> /\ photo # "missing"
        THEN IF photo = "ok"
             THEN [pasted |-> TRUE, raised |-> FALSE, logs |-> <<>>]
             ELSE [pasted |-> FALSE, raised |-> FALSE,
                   logs |-> <<[kind |-> "warn_photo_error", what |-> photo_path]>>]
        ELSE IF photo_filename # <<>>
             THEN [pasted |-> FALSE, raised |-> FALSE,
                   logs |-> <<[kind |-> "warn_photo_not_found", what |-> photo_path]>>]
             ELSE [pasted |-> FALSE, raised |-> FALSE, logs |-> <<>>]

SchoolLabel == <<"S", "C", "H", "O", "O", "L", ":", " ">>

DistrictLabel == <<"D", "I", "S", "T", "R", "I", "C", "T", ":", " ">>

IdLabel == <<"I", "D", ":", " ">>

PngSuffix == <<".", "p", "n", "g">>

NoCard == [name |-> <<>>]

Failure(logs) ==
    [raised |-> TRUE, pasted |-> FALSE, logs |-> logs, file |-> None, card |-> NoCard]

create_id_card(fsys, d, firstname, lastname, role, school, district, photo_filename, world) ==
    LET full_name == strip(firstname \o Space \o lastname)
        font_name == fit_font_size(fsys, d, upper(full_name), FONT_NAME_PATH,
                                   FONT_NAME_SIZE, WRAP_MAX_WIDTH, 28)
        font_id == load_font(fsys, FONT_ID_PATH, FONT_ID_SIZE)
        font_role == fit_font_size(fsys, d, upper(role), FONT_ROLE_PATH,
                                   FONT_ROLE_SIZE, WRAP_MAX_WIDTH, 20)
        font_small == load_font(fsys, FONT_SMALL_PATH, FONT_SMALL_SIZE)
        name_lines == wrap_text(d, upper(full_name), font_name, WRAP_MAX_WIDTH)
        name_block == DrawLines(d, name_lines, 2, font_name, TEXT_START_Y)
        y_id == name_block.y + SECTION_GAP
        generated_id == upper(safe_filename(lastname \o <<"_">> \o firstname))
        id_line == IdLabel \o generated_id
        y_role == y_id + text_height(d, id_line, font_id) + SECTION_GAP
        role_line == upper(role)
        y_school == y_role + text_height(d, role_line, font_role) + SECTION_GAP
        school_text == strip(upper(SchoolLabel \o school))
        school_lines == wrap_text(d, school_text, font_small, WRAP_MAX_WIDTH)
        school_block == DrawLines(d, school_lines, 3, font_small, y_school)
        y_district == school_block.y + 4
        district_text == strip(upper(DistrictLabel \o district))
        district_lines == wrap_text(d, district_text, font_small, WRAP_MAX_WIDTH)
        district_block == DrawLines(d, district_lines, 3, font_small, y_district)
        photo == PhotoStep(photo_filename, world.photo)
        out_name == upper(safe_filename(firstname \o <<"_">> \o lastname)) \o PngSuffix
        out_path == path_join(OUTPUT_FOLDER, out_name)
        card == [name |-> name_block.drawn,
                 id |-> [text |-> id_line, y |-> y_id],
                 role |-> [text |-> role_line, y |-> y_role],
                 school |-> school_block.drawn,
                 district |-> district_block.drawn,
                 y |-> district_block.y,
                 fonts |-> [name |-> font_name, id |-> font_id,
                            role |-> font_role, small |-> font_small],
                 photo |-> photo.pasted]
    IN  IF world.io = "open_fails" THEN Failure(<<>>)
        ELSE IF \E f \in {font_name, font_id, font_role, font_small} : IsRaised(f)
        THEN Failure(<<>>)
        ELSE IF photo.raised THEN Failure(photo.logs)
        ELSE IF world.io = "save_fails" THEN Failure(photo.logs)
        ELSE [raised |-> FALSE, pasted |-> photo.pasted,
              logs |-> Append(photo.logs, [kind |-> "saved", what |-> out_path]),
              file |-> out_path, card |-> card]

(***************************************************************************)
(* Input domains of the pure functions.                                    *)
(***************************************************************************)
RECURSIVE SeqsUpTo(_, _)
SeqsUpTo(S, n) ==
    IF n = 0 THEN {<<>>}
    ELSE LET shorter == SeqsUpTo(S, n - 1)
         IN  shorter \cup {Append(s, c) : s \in {t \in shorter : Len(t) = n - 1}, c \in S}

TextChars == {"a", "w", " "}

Draws == [narrow : {1}, wide : {2, 3}, space : {0, 1}]

DrawPx == [narrow |-> 1, wide |-> 2, space |-> 1]

FileSystems ==
    [arial : BOOLEAN, fontfile : {"absent", "valid", "corrupt"}, template : {TRUE}]

NoCall == [text |-> <<>>]

Idle ==
    /\ i = 0
    /\ output = {}
    /\ log = <<>>
    /\ handled = <<>>

(***************************************************************************)
(* SpecWrap: wrap_text applied to every bounded text, metric and width.    *)
(***************************************************************************)
InitWrap ==
    /\ pc = "wrap_call"
    /\ args \in [text : SeqsUpTo(TextChars, MaxLen),
                 font : [face : {"arial"}, size : {1, 2}],
                 max_width : 0..MaxWidth]
    /\ ret = <<>>
    /\ draw \in Draws
    /\ fs = [arial |-> TRUE, fontfile |-> "absent", template |-> TRUE]
    /\ Idle

WrapCall ==
    /\ pc = "wrap_call"
    /\ ret' = wrap_text(draw, args.text, args.font, args.max_width)
    /\ pc' = "wrap_done"
    /\ UNCHANGED <<args, draw, fs, i, output, log, handled>>

NextWrap == WrapCall

SpecWrap == InitWrap /\ [][NextWrap]_vars

(***************************************************************************)
(* SpecFit: fit_font_size applied to every bounded text, size range,       *)
(* width, font path and font file system.                                  *)
(***************************************************************************)
InitFit ==
    /\ pc = "fit_call"
    /\ args \in [text : SeqsUpTo(TextChars, MaxFitLen),
                 font_path : {None, <<"fonts/custom.otf">>},
                 start_size : 1..MaxSize,
                 max_width : 0..MaxFitWidth,
                 min_size : 1..MaxSize]
    /\ ret = <<>>
    /\ draw = DrawPx
    /\ fs \in FileSystems
    /\ Idle

FitCall ==
    /\ pc = "fit_call"
    /\ ret' = fit_font_size(fs, draw, args.text, args.font_path, args.start_size,
                            args.max_width, args.min_size)
    /\ pc' = "fit_done"
    /\ UNCHANGED <<args, draw, fs, i, output, log, handled>>

NextFit == FitCall

SpecFit == InitFit /\ [][NextFit]_vars

(***************************************************************************)
(* The output folder: saving a path replaces the file already there.       *)
(* A file remembers the row whose card it holds.                           *)
(***************************************************************************)
WriteFile(out, r, n) ==
    IF r.file = None THEN out
    ELSE {f \in out : f.path # r.file} \cup {[path |-> r.file, row |-> n, card |-> r.card]}

Worlds == [io : {"ok", "open_fails", "save_fails"}, photo : {"missing", "ok", "bad"}]

DrawCard == [narrow |-> 1, wide |-> 6, space |-> 1]

(***************************************************************************)
(* SpecCard: one call of create_id_card on every bounded record.           *)
(***************************************************************************)
LongText == <<"w", "w", " ", "w", "w", " ", "w", "w">>

InitCard ==
    /\ pc = "card_call"
    /\ args \in [firstname : {<<>>, <<"a">>, <<"w", " ", "w">>},
                 lastname : {<<>>, <<"b">>, <<"w">>},
                 role : {<<>>, <<"a">>, <<"w", " ", "w", " ", "w">>},
                 school : {<<>>, <<"a">>, LongText},
                 district : {<<>>, <<"b">>, LongText},
                 photo_filename : {<<>>, <<"p">>},
                 world : Worlds]
    /\ ret = <<>>
    /\ draw = DrawCard
    /\ fs \in [arial : BOOLEAN, fontfile : {"absent"}, template : {TRUE}]
    /\ Idle

CardCall ==
    /\ pc = "card_call"
    /\ ret' = create_id_card(fs, draw, args.firstname, args.lastname, args.role,
                             args.school, args.district, args.photo_filename, args.world)
    /\ output' = WriteFile(output, ret', 1)
    /\ log' = log \o ret'.logs
    /\ pc' = "card_done"
    /\ UNCHANGED <<args, draw, fs, i, handled>>

NextCard == CardCall

SpecCard == InitCard /\ [][NextCard]_vars

(***************************************************************************)
(* Spec: batch_generate_id_cards.  The reader hands over one row at a      *)
(* time; a row is the DictReader's dict, None standing for a missing cell. *)
(***************************************************************************)
Rows ==
    [firstname : {None, <<" ">>, <<"a">>, <<"A", " ">>},
     lastname : {<<>>, <<"b">>},
     Role : {<<"a">>},
     Photo : {<<>>, <<"p">>},
     District : {<<"b">>},
     School : {<<"a">>}]

\* a mutation: the cell is not stripped
FieldNoStrip(row, key) == IF row[key] = None THEN <<>> ELSE row[key]

\* (row.get(key) or "").strip()
Field(row, key) == strip(IF row[key] = None THEN <<>> ELSE row[key])

\* a mutation: the exception leaves the loop
ExceptReraise(n) == [pc |-> "raised", logs |-> <<>>]

\* "except Exception as e: print(...)", after which the loop goes on
Except(n) == [pc |-> "rows", logs |-> <<[kind |-> "error", what |-> n]>>]

Init ==
    /\ pc = "start"
    /\ args = NoCall
    /\ ret = <<>>
    /\ draw = DrawCard
    /\ fs \in [arial : BOOLEAN, fontfile : {"absent"}, template : BOOLEAN]
    /\ Idle

\* the template check and the header line
Start ==
    /\ pc = "start"
    /\ IF fs.template
       THEN /\ pc' = "rows"
            /\ log' = Append(log, [kind |-> "headers", what |-> 0])
       ELSE /\ pc' = "raised"
            /\ log' = log
    /\ UNCHANGED <<args, ret, draw, fs, i, output, handled>>

\* one iteration of "for i, row in enumerate(reader, start=1)"
Row ==
    /\ pc = "rows"
    /\ i < MaxRows
    /\ \E row \in Rows, world \in Worlds :
          LET n == i + 1
              firstname == Field(row, "firstname")
              lastname == Field(row, "lastname")
              role == Field(row, "Role")
              photo == Field(row, "Photo")
              district == Field(row, "District")
              school == Field(row, "School")
          IN  /\ i' = n
              /\ args' = row
              /\ IF firstname = <<>> /\ lastname = <<>>
                 THEN /\ log' = Append(log, [kind |-> "warn_skip", what |-> n])
                      /\ handled' = Append(handled, [row |-> row, called |-> FALSE,
                                                     raised |-> FALSE])
                      /\ pc' = "rows"
                      /\ UNCHANGED <<ret, output>>
                 ELSE \E r \in {create_id_card(fs, draw, firstname, lastname, role,
                                                school, district, photo, world)} :
                          /\ ret' = r
                          /\ output' = WriteFile(output, r, n)
                          /\ handled' = Append(handled, [row |-> row, called |-> TRUE,
                                                         raised |-> r.raised])
                          /\ IF r.raised
                             THEN /\ pc' = Except(n).pc
                                  /\ log' = log \o r.logs \o Except(n).logs
                             ELSE /\ pc' = "rows"
                                  /\ log' = log \o r.logs
    /\ UNCHANGED <<draw, fs>>

\* the reader is exhausted
EndOfFile ==
    /\ pc = "rows"
    /\ pc' = "done"
    /\ UNCHANGED <<args, ret, draw, fs, i, output, log, handled>>

Next == Start \/ Row \/ EndOfFile

Spec == Init /\ [][Next]_vars

(***************************************************************************)
(* Claims about wrap_text (SpecWrap).                                      *)
(***************************************************************************)
WrapWords == split(args.text)

WordWidth(w) == text_width(draw, w, args.font)

LineWidth(ln) == text_width(draw, ln, args.font)

WidestWordFits == \A k \in 1..Len(WrapWords) : WordWidth(WrapWords[k]) <= args.max_width

RECURSIVE WordsOfLines(_)
WordsOfLines(lines) ==
    IF lines = <<>> THEN <<>> ELSE split(Head(lines)) \o WordsOfLines(Tail(lines))

\* C1: for a text with at least one word and a max_width no smaller than the
\* widest word, the wrapped lines joined by single spaces are exactly the
\* whitespace-normalized text: no word is lost, duplicated or reordered.
C1_RoundTrip ==
    (pc = "wrap_done" /\ WrapWords # <<>> /\ WidestWordFits)
        => /\ join(Space, ret) = join(Space, WrapWords)
           /\ WordsOfLines(ret) = WrapWords

C1_Witness ==
    /\ pc = "wrap_done"
    /\ WidestWordFits
    /\ Len(WrapWords) >= 2
    /\ Len(ret) >= 2
    /\ args.text # join(Space, WrapWords)

C10_NoEmptyLines ==
    pc = "wrap_done"
        => /\ ret # <<>>
           /\ WrapWords = <<>> => ret = << <<>> >>
           /\ WrapWords # <<>> => \A n \in 1..Len(ret) : ret[n] # <<>>

C10_Witness ==
    /\ pc = "wrap_done"
    /\ args.text # <<>>
    /\ WrapWords = <<>>
    /\ ret = << <<>> >>

(***************************************************************************)
(* Claims about fit_font_size (SpecFit).                                   *)
(***************************************************************************)
FontAt(size) == load_font(fs, args.font_path, size)

Fits(size) ==
    /\ ~IsRaised(FontAt(size))
    /\ text_width(draw, args.text, FontAt(size)) <= args.max_width

FittingSizes == {s \in args.min_size..args.start_size : Fits(s)}

LargestFitting == CHOOSE s \in FittingSizes : \A t \in FittingSizes : t <= s

FitExpected ==
    IF FittingSizes # {} THEN FontAt(LargestFitting) ELSE FontAt(args.min_size)

\* C3: fit_font_size returns the font at the largest size of
\* start_size, start_size-1, ..., min_size whose unwrapped width is at most
\* max_width, the font at min_size when no size fits, and never fails.
C3_FitResult ==
    pc = "fit_done" => (~IsRaised(ret) /\ ret = FitExpected)

\* The search order of C3 alone, for the calls in which the font file loads.
C3_FitResultWhenLoadable ==
    (pc = "fit_done" /\ ~IsRaised(FontAt(args.min_size))) => ret = FitExpected

\* C4 as stated: the size of the returned font lies within
\* [min_size, start_size].
C4_SizeInRange ==
    (pc = "fit_done" /\ ~IsRaised(ret))
        => (args.min_size <= ret.size /\ ret.size <= args.start_size)

\* C4 as amended: a font of a scalable face (the custom font or Arial) has a
\* size within [min_size, start_size] when min_size <= start_size and the size
\* min_size when start_size < min_size; the built-in fallback face has its own
\* fixed size whatever the two sizes are.
C4_SizeInRangeAmended ==
    (pc = "fit_done" /\ ~IsRaised(ret))
        => IF ret.face = "default" THEN ret.size = DefaultSize
           ELSE IF args.min_size <= args.start_size
                THEN args.min_size <= ret.size /\ ret.size <= args.start_size
                ELSE ret.size = args.min_size

C4_Witness ==
    /\ pc = "fit_done"
    /\ ~IsRaised(ret)
    /\ ret.face # "default"
    /\ args.min_size < ret.size
    /\ ret.size < args.start_size

(***************************************************************************)
(* Claims about create_id_card (SpecCard).                                 *)
(***************************************************************************)
PhotoWarnings ==
    {k \in 1..Len(log) : log[k].kind \in {"warn_photo_error", "warn_photo_not_found"}}

\* C7: whatever the photo reference is (empty, a missing file, a file whose
\* decoding raises), a call whose template opens and whose save succeeds
\* flattens and saves the card; the photo is pasted only when the file exists
\* and decodes, and a warning is logged exactly when a non-empty reference
\* could not be used.
C7_PhotoNonFatal ==
    (pc = "card_done" /\ args.world.io = "ok")
        => /\ ~ret.raised
           /\ \E f \in output : f.path = ret.file /\ f.card.photo = ret.pasted
           /\ log[Len(log)] = [kind |-> "saved", what |-> ret.file]
           /\ ret.pasted <=> (args.photo_filename # <<>> /\ args.world.photo = "ok")
           /\ PhotoWarnings # {} <=> (args.photo_filename # <<>> /\ ~ret.pasted)
           /\ (args.photo_filename # <<>> /\ args.world.photo = "missing")
                 => log[1].kind = "warn_photo_not_found"
           /\ (args.photo_filename # <<>> /\ args.world.photo = "bad")
                 => log[1].kind = "warn_photo_error"

C7_Witness ==
    /\ pc = "card_done"
    /\ args.world.io = "ok"
    /\ args.photo_filename # <<>>
    /\ args.world.photo = "bad"
    /\ output # {}
    /\ PhotoWarnings # {}

Texts(drawn) == [k \in 1..Len(drawn) |-> drawn[k].text]

FirstLines(lines, cap) == SubSeq(lines, 1, IF Len(lines) < cap THEN Len(lines) ELSE cap)

RECURSIVE Advanced(_, _)
Advanced(lines, font) ==
    IF lines = <<>> THEN 0
    ELSE text_height(draw, Head(lines), font) + 2 + Advanced(Tail(lines), font)

NameWrap ==
    wrap_text(draw, upper(strip(args.firstname \o Space \o args.lastname)),
              ret.card.fonts.name, WRAP_MAX_WIDTH)

SchoolWrap ==
    wrap_text(draw, strip(upper(SchoolLabel \o args.school)),
              ret.card.fonts.small, WRAP_MAX_WIDTH)

DistrictWrap ==
    wrap_text(draw, strip(upper(DistrictLabel \o args.district)),
              ret.card.fonts.small, WRAP_MAX_WIDTH)

\* C8: the lines drawn for the name, the SCHOOL block and the DISTRICT block
\* are the first min(number of wrapped lines, cap) lines of the field's
\* wrap_text result, in order, with cap 2, 3 and 3; the vertical cursor
\* advances by the drawn lines only.
C8_LineCap ==
    (pc = "card_done" /\ ~ret.raised)
        => LET c == ret.card
           IN  /\ Texts(c.name) = FirstLines(NameWrap, 2)
               /\ Texts(c.school) = FirstLines(SchoolWrap, 3)
               /\ Texts(c.district) = FirstLines(DistrictWrap, 3)
               /\ c.name[1].y = TEXT_START_Y
               /\ c.id.y = TEXT_START_Y
                             + Advanced(FirstLines(NameWrap, 2), c.fonts.name)
                             + SECTION_GAP
               /\ c.district[1].y = c.school[1].y
                                      + Advanced(FirstLines(SchoolWrap, 3), c.fonts.small)
                                      + 4
               /\ c.y = c.district[1].y
                          + Advanced(FirstLines(DistrictWrap, 3), c.fonts.small)

C8_Witness ==
    /\ pc = "card_done"
    /\ ~ret.raised
    /\ Len(NameWrap) >= 3
    /\ Len(SchoolWrap) >= 4
    /\ Len(DistrictWrap) >= 4
    /\ Len(ret.card.school) = 3

(***************************************************************************)
(* Claims about batch_generate_id_cards (Spec).                            *)
(***************************************************************************)
Logged(kind, n) == \E k \in 1..Len(log) : log[k].kind = kind /\ log[k].what = n

RowReports == {k \in 1..Len(log) : log[k].kind \in {"error", "warn_skip"}}

\* C5: an exception raised while a row is processed is caught at that row
\* and reported with the row's 1-based index; it never halts the batch, and
\* the rows after it are processed in input order.
C5_FailureIsolation ==
    /\ Len(handled) = i
    /\ pc = "raised" => (i = 0 /\ log = <<>>)
    /\ \A n \in 1..i : handled[n].raised <=> Logged("error", n)
    /\ \A k, l \in RowReports : k < l => log[k].what < log[l].what
    /\ \A n \in 1..i : handled[n].raised => pc \in {"rows", "done"}

C5_Witness ==
    /\ pc = "done"
    /\ i = 2
    /\ handled[1].raised
    /\ handled[2].called
    /\ ~handled[2].raised
    /\ \E f \in output : f.row = 2

ValidRecords == {n \in 1..i : handled[n].called /\ ~handled[n].raised}

\* C6: after the batch every valid record has its own finished raster in
\* the output folder: as many files as valid records, none overwritten.
C6_OneRasterPerRecord ==
    pc = "done"
        => /\ Cardinality(output) = Cardinality(ValidRecords)
           /\ \A n \in ValidRecords : \E f \in output : f.row = n

BlankNames(row) ==
    /\ row.firstname \in {None, <<>>} \/ \A k \in 1..Len(row.firstname) : row.firstname[k] = " "
    /\ row.lastname \in {None, <<>>} \/ \A k \in 1..Len(row.lastname) : row.lastname[k] = " "

\* C9: for a row whose firstname and lastname are both empty after
\* stripping, create_id_card is not invoked, no output file is produced, a
\* warning with the row's 1-based index is logged and the loop goes on.
C9_BlankRowsSkipped ==
    \A n \in 1..Len(handled) :
        BlankNames(handled[n].row)
            => /\ ~handled[n].called
               /\ ~\E f \in output : f.row = n
               /\ Logged("warn_skip", n)
               /\ ~Logged("error", n)
               /\ pc \in {"rows", "done"}

C9_Witness ==
    /\ pc = "done"
    /\ i = 2
    /\ BlankNames(handled[1].row)
    /\ handled[1].row.firstname = <<" ">>
    /\ handled[2].called
    /\ \E f \in output : f.row = 2

====
